---- MODULE Spec2Model ----
(***************************************************************************)
(* Aurora, the first user-space process of CryptixOS (Source/main.cpp).    *)
(* The model covers the mount phase (mountFilesystems and the parsers it   *)
(* calls) and the shell supervision loop of NeonMain, together with the    *)
(* processes the loop forks.                                               *)
(*                                                                         *)
(* C strings are sequences of one-character strings; NUL is the            *)
(* terminator byte where a buffer is modelled byte by byte.                *)
(*                                                                         *)
(* Spec is the whole of NeonMain.  SpecLive is NeonMain on an empty mount  *)
(* table, with fairness for the loop.  SpecMount is mountFilesystems on    *)
(* its own over a wider choice of tables, and SpecParsers applies          *)
(* parseMountOptions and parseMountPoint to strings built from tokens.     *)
(***************************************************************************)
EXTENDS Integers, Sequences, FiniteSets, Bags, TLC

\* ------------------------------------------------------------------------
\* Bounds of the model
\* ------------------------------------------------------------------------
MaxLines == 2      \* lines of /etc/fstab
MaxProcs == 3      \* process identifiers the kernel hands out (pid 1 is Aurora)
MaxSignals == 1    \* hangup signals sent to Aurora from outside
MaxStops == 1      \* stops of a shell that the kernel reports to its parent
MaxTokens == 3     \* tokens of an options string handed to parseMountOptions
MaxWords == 7      \* fields of a line handed to parseMountPoint

\* ------------------------------------------------------------------------
\* Program constants
\* ------------------------------------------------------------------------
MAX_LINE_LENGTH == 1024
MAX_FIELDS == 6
EXIT_SUCCESS == 0
EXIT_FAILURE == 1

MS_RDONLY == 1
MS_NOSUID == 2
MS_NODEV == 4
MS_NOEXEC == 8
MS_SYNCHRONOUS == 16
MS_DIRSYNC == 128
MS_NOATIME == 1024
MS_RELATIME == 2097152

NUL == "NUL"
NL == "\n"

\* ------------------------------------------------------------------------
\* libc string helpers
\* ------------------------------------------------------------------------
Max(a, b) == IF a >= b THEN a ELSE b
Min(a, b) == IF a <= b THEN a ELSE b

\* the least index in lo..hi at which the Boolean sequence b holds, hi + 1
\* when there is none: the forward scan of the libc loops below, evaluated
\* by halving so that buffers of MAX_LINE_LENGTH bytes stay within reach
RECURSIVE FirstTrue(_, _, _)
FirstTrue(b, lo, hi) ==
    IF lo > hi THEN hi + 1
    ELSE IF lo = hi THEN (IF b[lo] THEN lo ELSE hi + 1)
    ELSE LET mid  == (lo + hi) \div 2
             left == FirstTrue(b, lo, mid)
         IN  IF left <= mid THEN left ELSE FirstTrue(b, mid + 1, hi)

\* strlen of a byte buffer: bytes before the first NUL
strlen(buf) ==
    FirstTrue([i \in 1..Len(buf) |-> buf[i] = NUL], 1, Len(buf)) - 1

\* the C string held in a byte buffer
CStr(buf) == SubSeq(buf, 1, strlen(buf))

\* length of the leading run of bytes that are (inDelims) / are not delimiters
Span(s, delims, inDelims) ==
    FirstTrue([i \in 1..Len(s) |-> (s[i] \in delims) # inDelims], 1, Len(s)) - 1

\* every token successive strtok calls return for the string s
RECURSIVE strtok(_, _)
strtok(s, delims) ==
    LET skip == Span(s, delims, TRUE)
        rest == SubSeq(s, skip + 1, Len(s))
        n    == Span(rest, delims, FALSE)
    IN  IF n = 0 THEN <<>>
        ELSE <<SubSeq(rest, 1, n)>> \o strtok(SubSeq(rest, n + 1, Len(rest)), delims)

Digit(c) ==
    CASE c = "0" -> 0 [] c = "1" -> 1 [] c = "2" -> 2 [] c = "3" -> 3
      [] c = "4" -> 4 [] c = "5" -> 5 [] c = "6" -> 6 [] c = "7" -> 7
      [] c = "8" -> 8 [] c = "9" -> 9 [] OTHER -> -1

RECURSIVE atoiDigits(_, _)
atoiDigits(s, acc) ==
    IF s = <<>> \/ Digit(Head(s)) < 0 THEN acc
    ELSE atoiDigits(Tail(s), acc * 10 + Digit(Head(s)))

\* atoi that reads no digit
atoi_zero(s) == 0

atoi(s) ==
    IF s # <<>> /\ Head(s) = "-" THEN 0 - atoiDigits(Tail(s), 0)
    ELSE IF s # <<>> /\ Head(s) = "+" THEN atoiDigits(Tail(s), 0)
    ELSE atoiDigits(s, 0)

\* ------------------------------------------------------------------------
\* trimNewLine, parseMountOptions, parseMountPoint
\* ------------------------------------------------------------------------
trimNewLine(str) ==
    IF Len(str) > 0 /\ str[Len(str)] = NL THEN SubSeq(str, 1, Len(str) - 1) ELSE str

\* the bit added instead of or-ed
BitOr_add(flags, bit) == flags + bit

BitOr(flags, bit) == IF (flags \div bit) % 2 = 1 THEN flags ELSE flags + bit

\* the flag bit of a recognised token, 0 for any other token
FlagOf(token) ==
    CASE token = <<"r", "o">> -> MS_RDONLY
      [] token = <<"n", "o", "a", "t", "i", "m", "e">> -> MS_NOATIME
      [] token = <<"r", "e", "l", "a", "t", "i", "m", "e">> -> MS_RELATIME
      [] token = <<"n", "o", "s", "u", "i", "d">> -> MS_NOSUID
      [] token = <<"n", "o", "d", "e", "v">> -> MS_NODEV
      [] token = <<"n", "o", "e", "x", "e", "c">> -> MS_NOEXEC
      [] token = <<"s", "y", "n", "c">> -> MS_SYNCHRONOUS
      [] token = <<"d", "i", "r", "s", "y", "n", "c">> -> MS_DIRSYNC
      [] OTHER -> 0

\* strcpy(buf + at, token): the bytes of token and its terminator, written
\* from 0-based offset at; a write past the end of buf grows the model buffer
strcpyAt(buf, at, token) ==
    LET src == token \o <<NUL>>
    IN  [i \in 1..Max(Len(buf), at + Len(src)) |->
            IF i > at /\ i <= at + Len(src) THEN src[i - at]
            ELSE buf[i]]

\* the loop writing a separator after each token it keeps
RECURSIVE optionsLoop_sep(_, _)
optionsLoop_sep(tokens, st) ==
    IF tokens = <<>> THEN st
    ELSE LET token == Head(tokens) \o <<",">>
             known == FlagOf(Head(tokens)) # 0
         IN  optionsLoop_sep(Tail(tokens),
                [flags   |-> IF known THEN BitOr(st.flags, FlagOf(Head(tokens))) ELSE st.flags,
                 buf     |-> IF known THEN st.buf ELSE strcpyAt(st.buf, st.current, token),
                 current |-> st.current + Len(token),
                 top     |-> IF known THEN st.top
                             ELSE Max(st.top, st.current + Len(token))])

\* the loop with current stepping over the separator as well
RECURSIVE optionsLoop_keepsep(_, _)
optionsLoop_keepsep(tokens, st) ==
    IF tokens = <<>> THEN st
    ELSE LET token == Head(tokens)
             known == FlagOf(token) # 0
         IN  optionsLoop_keepsep(Tail(tokens),
                [flags   |-> IF known THEN BitOr(st.flags, FlagOf(token)) ELSE st.flags,
                 buf     |-> IF known THEN st.buf ELSE strcpyAt(st.buf, st.current, token),
                 current |-> st.current + Len(token) + 1,
                 top     |-> IF known THEN st.top
                             ELSE Max(st.top, st.current + Len(token))])

\* the while loop of parseMountOptions over the remaining tokens
RECURSIVE optionsLoop(_, _)
optionsLoop(tokens, st) ==
    IF tokens = <<>> THEN st
    ELSE LET token == Head(tokens)
             known == FlagOf(token) # 0
         IN  optionsLoop(Tail(tokens),
                [flags   |-> IF known THEN BitOr(st.flags, FlagOf(token)) ELSE st.flags,
                 buf     |-> IF known THEN st.buf ELSE strcpyAt(st.buf, st.current, token),
                 current |-> st.current + Len(token),
                 top     |-> IF known THEN st.top
                             ELSE Max(st.top, st.current + Len(token))])

\* parseMountOptions(opts): flags is the return value, opts the C string left
\* in the caller's buffer, top the highest 0-based offset written
parseMountOptions(opts) ==
    LET st  == optionsLoop(strtok(opts, {","}),
                   [flags |-> 0, buf |-> opts \o <<NUL>>, current |-> 0, top |-> 0])
        end == strcpyAt(st.buf, st.current, <<>>)
    IN  [flags |-> st.flags, opts |-> CStr(end), top |-> Max(st.top, st.current)]

\* parseMountPoint(line, entry): ok is the return value
parseMountPoint(line) ==
    LET all        == strtok(line, {" ", "\t"})
        fieldCount == Min(Len(all), MAX_FIELDS)
        fields     == SubSeq(all, 1, fieldCount)
    IN  IF fieldCount < 4 THEN [ok |-> 0]
        ELSE [ok             |-> 1,
              Source         |-> fields[1],
              Target         |-> fields[2],
              FilesystemType |-> fields[3],
              Options        |-> fields[4],
              Frequency      |-> IF fieldCount >= 5 THEN atoi(fields[5]) ELSE 0,
              FsckPassNumber |-> IF fieldCount >= 6 THEN atoi(fields[6]) ELSE 0]

\* fgets(line, sizeof(line), file) at offset pos of the file: at most
\* size - 1 bytes, stopping after a newline; <<>> stands for NULL (end of file)
fgetsLen(content, pos, room) ==
    LET avail == Min(room, Max(Len(content) - pos, 0))
        nl    == FirstTrue([i \in 1..Len(content) |-> content[i] = NL],
                           pos + 1, pos + avail)
    IN  IF nl <= pos + avail THEN nl - pos ELSE avail

fgets(content, pos, size) == SubSeq(content, pos + 1, pos + fgetsLen(content, pos, size - 1))

\* ------------------------------------------------------------------------
\* The machine: /etc/fstab, the shell binary, Aurora and the processes it forks
\* ------------------------------------------------------------------------
VARIABLES
    fstabExists,      \* fopen("/etc/fstab", "r") succeeds
    fstab,            \* the bytes of /etc/fstab
    shellExecutable,  \* Filesystem::Access(shellPath, eExecute) succeeds
    fpos,             \* read offset of the FILE
    lineNumber,       \* lineNumber of mountFilesystems
    mountReturn,      \* what mountFilesystems returned, Unset before it returns
    mounts,           \* the mount(2) calls made so far, in order
    proc,             \* the process table
    log,              \* per process, the bag of messages handed to Log::Logv
    sighup,           \* disposition of SIGHUP in Aurora and the flags it was installed with
    nSignals,         \* hangup signals sent from outside so far
    nStops,           \* reported stops of shells so far
    arg,              \* the argument of a parser that is called on its own
    result            \* what that call returned, NotCalled before it returns

vars == <<fstabExists, fstab, shellExecutable, fpos, lineNumber, mountReturn,
          mounts, proc, log, sighup, nSignals, nStops, arg, result>>

Pids == 1..MaxProcs
Aurora == 1          \* the process that runs NeonMain from its first line
Unset == -2          \* a local variable that has not been assigned

ExitCodes == {0, 1}  \* exit codes a shell ends with
NoArg == [fn |-> "none", tokens |-> <<>>, text |-> <<>>]
NotCalled == [fn |-> "none"]

\* a mount table with two entries, a comment and an incomplete line; the
\* files /etc/fstab is drawn from are the empty file and the runs of MaxLines
\* consecutive lines of the table, taken as a ring
SampleTable ==
    << <<"a", " ", "t", " ", "f", " ", "r", "o", NL>>,
       <<"b", "\t", "t", " ", "f", " ", "x", ",", "r", "o", " ", "1", NL>>,
       <<"#", "c", NL>>,
       <<"d", " ", "t", NL>> >>

RECURSIVE Concat(_)
Concat(ls) == IF ls = <<>> THEN <<>> ELSE Head(ls) \o Concat(Tail(ls))

FstabFiles ==
    { Concat([k \in 1..n |-> SampleTable[((i + k - 2) % Len(SampleTable)) + 1]]) :
        i \in 1..Len(SampleTable), n \in {0, MaxLines} }

Unborn == [image |-> "none", state |-> "unborn", pc |-> "none", parent |-> 0,
           pid |-> Unset, ret |-> Unset, status |-> [kind |-> "none", code |-> 0],
           term |-> [kind |-> "none", code |-> 0], stopReport |-> FALSE,
           execFailed |-> FALSE, nFork |-> 0, nWait |-> 0, nReturn |-> 0, nExited |-> 0]

Init ==
    /\ fstabExists \in BOOLEAN
    /\ fstab \in (IF fstabExists THEN FstabFiles ELSE {<<>>})
    /\ shellExecutable \in BOOLEAN
    /\ fpos = 0
    /\ lineNumber = 0
    /\ mountReturn = Unset
    /\ mounts = <<>>
    /\ proc = [p \in Pids |->
                 IF p = Aurora
                 THEN [Unborn EXCEPT !.image = "aurora", !.state = "running", !.pc = "open"]
                 ELSE Unborn]
    /\ log = [p \in Pids |-> EmptyBag]
    /\ sighup = [handler |-> FALSE, restart |-> FALSE, resethand |-> FALSE]
    /\ nSignals = 0
    /\ nStops = 0
    /\ arg = NoArg
    /\ result = NotCalled

Running(p, at) ==
    /\ proc[p].image = "aurora"
    /\ proc[p].state = "running"
    /\ proc[p].pc = at

\* Logv with the message dropped
Logv_none(p, entry) == log' = log

Logv(p, entry) == log' = [log EXCEPT ![p] = @ (+) SetToBag({entry})]

\* return from NeonMain: the process ends as exit(code) does
Return(pr, code) ==
    [pr EXCEPT !.state = "zombie", !.pc = "done", !.term = [kind |-> "exited", code |-> code]]

\* mountFilesystems up to its read loop
mountFilesystemsOpen(p) ==
    /\ Running(p, "open")
    /\ IF ~fstabExists
       THEN /\ Logv(p, [level |-> "error", msg |-> "Failed to open /etc/fstab"])
            /\ mountReturn' = EXIT_FAILURE
            /\ proc' = [proc EXCEPT ![p].pc = "access"]
       ELSE /\ proc' = [proc EXCEPT ![p].pc = "read"]
            /\ UNCHANGED <<log, mountReturn>>
    /\ UNCHANGED <<arg, result, fstabExists, fstab, shellExecutable, fpos, lineNumber, mounts,
                   sighup, nSignals, nStops>>

\* mountFilesystemsLine returning EXIT_FAILURE when mount(2) fails
mountFilesystemsLine_abort(p, mountStatus) ==
    /\ Running(p, "read")
    /\ LET raw   == fgets(fstab, fpos, MAX_LINE_LENGTH)
           line  == trimNewLine(raw)
           entry == parseMountPoint(line)
           tr    == parseMountOptions(entry.Options)
       IN  /\ raw # <<>>
           /\ fpos' = fpos + Len(raw)
           /\ lineNumber' = lineNumber + 1
           /\ IF (line # <<>> /\ line[1] = "#") \/ Len(line) = 0
              THEN /\ mountStatus = 0
                   /\ UNCHANGED <<mounts, log>>
              ELSE IF entry.ok = 1
              THEN /\ mounts' = Append(mounts,
                                   [source |-> entry.Source, target |-> entry.Target,
                                    fstype |-> entry.FilesystemType, flags |-> tr.flags,
                                    data |-> tr.opts, status |-> mountStatus,
                                    line |-> lineNumber'])
                   /\ IF mountStatus = -1
                      THEN Logv(p, [level |-> "error", msg |-> "Failed to mount",
                                    line |-> lineNumber'])
                      ELSE UNCHANGED log
              ELSE /\ mountStatus = 0
                   /\ Logv(p, [level |-> "error", msg |-> "Skipping invalid or incomplete line",
                               line |-> lineNumber'])
                   /\ UNCHANGED mounts
    /\ IF mountStatus = -1
       THEN /\ mountReturn' = EXIT_FAILURE
            /\ proc' = [proc EXCEPT ![p].pc = "access"]
       ELSE UNCHANGED <<mountReturn, proc>>
    /\ UNCHANGED <<arg, result, fstabExists, fstab, shellExecutable, sighup, nSignals, nStops>>

\* one pass of the read loop of mountFilesystems, for a line fgets returned;
\* mountStatus is what mount(2) answers
mountFilesystemsLine(p, mountStatus) ==
    /\ Running(p, "read")
    /\ LET raw   == fgets(fstab, fpos, MAX_LINE_LENGTH)
           line  == trimNewLine(raw)
           entry == parseMountPoint(line)
           tr    == parseMountOptions(entry.Options)
       IN  /\ raw # <<>>
           /\ fpos' = fpos + Len(raw)
           /\ lineNumber' = lineNumber + 1
           /\ IF (line # <<>> /\ line[1] = "#") \/ Len(line) = 0
              THEN /\ mountStatus = 0
                   /\ UNCHANGED <<mounts, log>>
              ELSE IF entry.ok = 1
              THEN /\ mounts' = Append(mounts,
                                   [source |-> entry.Source, target |-> entry.Target,
                                    fstype |-> entry.FilesystemType, flags |-> tr.flags,
                                    data |-> tr.opts, status |-> mountStatus,
                                    line |-> lineNumber'])
                   /\ IF mountStatus = -1
                      THEN Logv(p, [level |-> "error", msg |-> "Failed to mount",
                                    line |-> lineNumber'])
                      ELSE UNCHANGED log
              ELSE /\ mountStatus = 0
                   /\ Logv(p, [level |-> "error", msg |-> "Skipping invalid or incomplete line",
                               line |-> lineNumber'])
                   /\ UNCHANGED mounts
    /\ UNCHANGED <<arg, result, fstabExists, fstab, shellExecutable, mountReturn, proc, sighup, nSignals, nStops>>

\* fgets returns NULL: fclose, return EXIT_SUCCESS; NeonMain drops the value
mountFilesystemsEnd(p) ==
    /\ Running(p, "read")
    /\ fgets(fstab, fpos, MAX_LINE_LENGTH) = <<>>
    /\ mountReturn' = EXIT_SUCCESS
    /\ proc' = [proc EXCEPT ![p].pc = "access"]
    /\ UNCHANGED <<arg, result, fstabExists, fstab, shellExecutable, fpos, lineNumber, mounts,
                   log, sighup, nSignals, nStops>>

\* CheckShell without the return in the failure branch
CheckShell_noreturn(p) ==
    /\ Running(p, "access")
    /\ IF ~shellExecutable
       THEN Logv(p, [level |-> "error", msg |-> "Failed to access the shell"])
       ELSE UNCHANGED log
    /\ proc' = [proc EXCEPT ![p].pc = "sigaction"]
    /\ UNCHANGED <<arg, result, fstabExists, fstab, shellExecutable, fpos, lineNumber, mountReturn,
                   mounts, sighup, nSignals, nStops>>

\* Filesystem::Access on the shell path
CheckShell(p) ==
    /\ Running(p, "access")
    /\ IF ~shellExecutable
       THEN /\ Logv(p, [level |-> "error", msg |-> "Failed to access the shell"])
            /\ proc' = [proc EXCEPT ![p] = Return(@, EXIT_FAILURE)]
       ELSE /\ proc' = [proc EXCEPT ![p].pc = "sigaction"]
            /\ UNCHANGED log
    /\ UNCHANGED <<arg, result, fstabExists, fstab, shellExecutable, fpos, lineNumber, mountReturn,
                   mounts, sighup, nSignals, nStops>>

\* sigaction(SIGHUP, &psa, nullptr): only sa_handler of psa is assigned, so
\* sa_flags holds whatever the stack held; restart and resethand are its
\* SA_RESTART and SA_RESETHAND bits
InstallHandler(p, restart, resethand) ==
    /\ Running(p, "sigaction")
    /\ sighup' = [handler |-> TRUE, restart |-> restart, resethand |-> resethand]
    /\ proc' = [proc EXCEPT ![p].pc = "kill"]
    /\ UNCHANGED <<arg, result, fstabExists, fstab, shellExecutable, fpos, lineNumber, mountReturn,
                   mounts, log, nSignals, nStops>>

\* signalHandler, entered for a SIGHUP delivered to process p
signalHandler(p) == Logv(p, [level |-> "info", msg |-> "Received signal"])

\* kill(getpid(), SIGHUP): the signal is delivered before kill returns.  With
\* the handler in place signalHandler runs; if a hangup from outside has put
\* the default disposition back (SA_RESETHAND) the kernel either ends the
\* process or, for the init process, drops the signal: terminate chooses.
KillSelf(p, terminate) ==
    /\ Running(p, "kill")
    /\ IF sighup.handler
       THEN /\ ~terminate
            /\ signalHandler(p)
            /\ sighup' = [sighup EXCEPT !.handler = ~sighup.resethand]
            /\ proc' = [proc EXCEPT ![p].pc = "fork"]
       ELSE /\ IF terminate
               THEN proc' = [proc EXCEPT ![p] =
                               [@ EXCEPT !.state = "zombie", !.pc = "done",
                                         !.term = [kind |-> "signaled", code |-> 0]]]
               ELSE proc' = [proc EXCEPT ![p].pc = "fork"]
            /\ UNCHANGED <<log, sighup>>
    /\ UNCHANGED <<arg, result, fstabExists, fstab, shellExecutable, fpos, lineNumber, mountReturn,
                   mounts, nSignals, nStops>>

FreePids == { c \in Pids : proc[c].state = "unborn" }

\* top of the loop, fork() succeeds: the parent goes on to waitpid(pid, ...),
\* the duplicate c starts in the pid == 0 branch
Fork(p, c) ==
    /\ Running(p, "fork")
    /\ c \in FreePids
    /\ \A d \in FreePids : c <= d
    /\ Logv(p, [level |-> "trace", msg |-> "Launching shell..."])
    /\ proc' = [proc EXCEPT
                  ![p] = [@ EXCEPT !.pid = c, !.pc = "inwait",
                                   !.nFork = @ + 1, !.nWait = @ + 1],
                  ![c] = [Unborn EXCEPT !.image = "aurora", !.state = "running",
                                        !.pc = "exec", !.parent = p, !.pid = 0]]
    /\ UNCHANGED <<arg, result, fstabExists, fstab, shellExecutable, fpos, lineNumber, mountReturn,
                   mounts, sighup, nSignals, nStops>>

\* ForkFail without the return: control goes on to waitpid(-1, ...)
ForkFail_noreturn(p) ==
    /\ Running(p, "fork")
    /\ log' = [log EXCEPT ![p] = @ (+) SetToBag({[level |-> "trace", msg |-> "Launching shell..."],
                                                   [level |-> "error", msg |-> "fork failed"]})]
    /\ proc' = [proc EXCEPT ![p] = [@ EXCEPT !.pid = -1, !.pc = "inwait",
                                             !.nFork = @ + 1, !.nWait = @ + 1]]
    /\ UNCHANGED <<arg, result, fstabExists, fstab, shellExecutable, fpos, lineNumber, mountReturn,
                   mounts, sighup, nSignals, nStops>>

\* top of the loop, fork() returns -1
ForkFail(p) ==
    /\ Running(p, "fork")
    /\ log' = [log EXCEPT ![p] = @ (+) SetToBag({[level |-> "trace", msg |-> "Launching shell..."],
                                                   [level |-> "error", msg |-> "fork failed"]})]
    /\ proc' = [proc EXCEPT ![p] = Return([@ EXCEPT !.pid = -1, !.nFork = @ + 1],
                                          EXIT_FAILURE)]
    /\ UNCHANGED <<arg, result, fstabExists, fstab, shellExecutable, fpos, lineNumber, mountReturn,
                   mounts, sighup, nSignals, nStops>>

\* the pid == 0 branch, execvp replaces the image
Exec(c) ==
    /\ Running(c, "exec")
    /\ proc' = [proc EXCEPT ![c] = [@ EXCEPT !.image = "shell", !.pc = "none"]]
    /\ UNCHANGED <<arg, result, fstabExists, fstab, shellExecutable, fpos, lineNumber, mountReturn,
                   mounts, log, sighup, nSignals, nStops>>

\* the pid == 0 branch, execvp returns: control leaves the branch and reaches
\* waitpid(pid, ...) with pid == 0
ExecFail(c) ==
    /\ Running(c, "exec")
    /\ proc' = [proc EXCEPT ![c] = [@ EXCEPT !.execFailed = TRUE, !.pc = "inwait",
                                             !.nWait = @ + 1]]
    /\ UNCHANGED <<arg, result, fstabExists, fstab, shellExecutable, fpos, lineNumber, mountReturn,
                   mounts, log, sighup, nSignals, nStops>>

\* waitpid returns to p with value ret and *status set to st
WaitReturns(pr, ret, st) ==
    [pr EXCEPT !.ret = ret, !.status = st, !.pc = "waitret", !.nReturn = @ + 1]

IsChild(p, c) == c \in Pids /\ proc[c].parent = p /\ proc[c].state \notin {"unborn", "reaped"}

\* waitpid(pid, &status, 0): the child has terminated and is reaped
WaitReap(p) ==
    /\ Running(p, "inwait")
    /\ IsChild(p, proc[p].pid)
    /\ proc[proc[p].pid].state = "zombie"
    /\ proc' = [proc EXCEPT
                  ![p] = [WaitReturns(@, proc[p].pid, proc[proc[p].pid].term) EXCEPT
                            !.nExited = IF proc[proc[p].pid].term.kind = "exited"
                                        THEN @ + 1 ELSE @],
                  ![proc[p].pid] = [Unborn EXCEPT !.state = "reaped", !.parent = p]]
    /\ UNCHANGED <<arg, result, fstabExists, fstab, shellExecutable, fpos, lineNumber, mountReturn,
                   mounts, log, sighup, nSignals, nStops>>

\* waitpid(pid, &status, 0): the child has stopped and the stop is reported
WaitStopped(p) ==
    /\ Running(p, "inwait")
    /\ IsChild(p, proc[p].pid)
    /\ proc[proc[p].pid].state = "stopped"
    /\ proc[proc[p].pid].stopReport
    /\ proc' = [proc EXCEPT
                  ![p] = WaitReturns(@, proc[p].pid, [kind |-> "stopped", code |-> 0]),
                  ![proc[p].pid] = [@ EXCEPT !.stopReport = FALSE]]
    /\ UNCHANGED <<arg, result, fstabExists, fstab, shellExecutable, fpos, lineNumber, mountReturn,
                   mounts, log, sighup, nSignals, nStops>>

\* waitpid on an identifier that names no child blocking for ever
WaitNoChild_block(p) == FALSE /\ UNCHANGED vars

\* waitpid(pid, &status, 0) fails with ECHILD: pid names no child of the
\* caller (pid > 0), or the caller has no child at all (pid == 0)
WaitNoChild(p) ==
    /\ Running(p, "inwait")
    /\ IF proc[p].pid = 0
       THEN \A c \in Pids : ~IsChild(p, c)
       ELSE ~IsChild(p, proc[p].pid)
    /\ proc' = [proc EXCEPT ![p] = WaitReturns(@, -1, proc[p].status)]
    /\ UNCHANGED <<arg, result, fstabExists, fstab, shellExecutable, fpos, lineNumber, mountReturn,
                   mounts, log, sighup, nSignals, nStops>>

\* SIGHUP sent to Aurora from outside, once sigaction has been called.
\* With the handler in place signalHandler runs, and a waitpid in progress
\* fails with EINTR unless SA_RESTART was set.  With the default disposition
\* back in place (SA_RESETHAND) the kernel either ends the process or, for
\* the init process, drops the signal: terminate chooses.
Hangup(terminate) ==
    /\ nSignals < MaxSignals
    /\ proc[Aurora].state = "running"
    /\ proc[Aurora].pc \in {"kill", "fork", "inwait", "waitret"}
    /\ nSignals' = nSignals + 1
    /\ IF sighup.handler
       THEN /\ ~terminate
            /\ signalHandler(Aurora)
            /\ sighup' = [sighup EXCEPT !.handler = ~sighup.resethand]
            /\ IF proc[Aurora].pc = "inwait" /\ ~sighup.restart
               THEN proc' = [proc EXCEPT ![Aurora] = WaitReturns(@, -1, proc[Aurora].status)]
               ELSE UNCHANGED proc
       ELSE /\ IF terminate
               THEN proc' = [proc EXCEPT ![Aurora] =
                               [@ EXCEPT !.state = "zombie", !.pc = "done",
                                         !.term = [kind |-> "signaled", code |-> 0]]]
               ELSE UNCHANGED proc
            /\ UNCHANGED <<log, sighup>>
    /\ UNCHANGED <<arg, result, fstabExists, fstab, shellExecutable, fpos, lineNumber, mountReturn,
                   mounts, nStops>>

\* waitBranch with the WIFEXITED test inverted
waitBranch_inverted(ret, pid, status) ==
    IF ret = pid
    THEN IF status.kind = "exited" THEN "continue_waiting" ELSE "died"
    ELSE "loop"

\* waitBranch without the jump back to continue_waiting
waitBranch_nojump(ret, pid, status) ==
    IF ret = pid /\ status.kind = "exited" THEN "died" ELSE "loop"

\* waitBranch leaving the loop when waitpid fails
waitBranch_break(ret, pid, status) ==
    IF ret = pid
    THEN IF status.kind # "exited" THEN "continue_waiting" ELSE "died"
    ELSE "break"

\* where control goes once waitpid has returned ret with *status = status:
\* back to the label continue_waiting, on to the Info call, or straight to
\* the end of the loop body; no branch leaves the loop ("break") for the
\* statements that follow it
waitBranch(ret, pid, status) ==
    IF ret = pid
    THEN IF status.kind # "exited" THEN "continue_waiting" ELSE "died"
    ELSE "loop"

\* the closing brace of the loop body: pid and status, declared in the body,
\* go out of scope, and control is back at the top of the loop
EndOfBody(pr) ==
    [pr EXCEPT !.pc = "fork", !.pid = Unset, !.ret = Unset,
               !.status = [kind |-> "none", code |-> 0]]

\* the code after waitpid returns, up to the next fork or waitpid call
CheckWait(p) ==
    /\ Running(p, "waitret")
    /\ LET branch == waitBranch(proc[p].ret, proc[p].pid, proc[p].status)
       IN  CASE branch = "continue_waiting" ->
                 /\ proc' = [proc EXCEPT ![p] = [@ EXCEPT !.pc = "inwait", !.nWait = @ + 1]]
                 /\ UNCHANGED log
             [] branch = "died" ->
                 /\ Logv(p, [level |-> "info", msg |-> "Child died with exit code",
                             pid |-> proc[p].pid, code |-> proc[p].status.code])
                 /\ proc' = [proc EXCEPT ![p] = EndOfBody(@)]
             [] branch = "loop" ->
                 /\ proc' = [proc EXCEPT ![p] = EndOfBody(@)]
                 /\ UNCHANGED log
             [] branch = "break" ->
                 /\ Logv(p, [level |-> "trace", msg |-> "Exiting..."])
                 /\ proc' = [proc EXCEPT ![p] = Return(@, EXIT_SUCCESS)]
    /\ UNCHANGED <<arg, result, fstabExists, fstab, shellExecutable, fpos, lineNumber, mountReturn,
                   mounts, sighup, nSignals, nStops>>

\* ---- what a shell does on its own ----
IsShell(c, states) == proc[c].image = "shell" /\ proc[c].state \in states

\* the shell exits (after being continued, if it was stopped)
ShellExit(c, code) ==
    /\ IsShell(c, {"running", "stopped"})
    /\ proc' = [proc EXCEPT ![c] = [@ EXCEPT !.state = "zombie", !.stopReport = FALSE,
                                             !.term = [kind |-> "exited", code |-> code]]]
    /\ UNCHANGED <<arg, result, fstabExists, fstab, shellExecutable, fpos, lineNumber, mountReturn,
                   mounts, log, sighup, nSignals, nStops>>

\* a signal ends the shell
ShellKilled(c) ==
    /\ IsShell(c, {"running", "stopped"})
    /\ proc' = [proc EXCEPT ![c] = [@ EXCEPT !.state = "zombie", !.stopReport = FALSE,
                                             !.term = [kind |-> "signaled", code |-> 0]]]
    /\ UNCHANGED <<arg, result, fstabExists, fstab, shellExecutable, fpos, lineNumber, mountReturn,
                   mounts, log, sighup, nSignals, nStops>>

\* the shell stops and the kernel has the stop to report to its parent
ShellStop(c) ==
    /\ IsShell(c, {"running"})
    /\ nStops < MaxStops
    /\ nStops' = nStops + 1
    /\ proc' = [proc EXCEPT ![c] = [@ EXCEPT !.state = "stopped", !.stopReport = TRUE]]
    /\ UNCHANGED <<arg, result, fstabExists, fstab, shellExecutable, fpos, lineNumber, mountReturn,
                   mounts, log, sighup, nSignals>>

Next ==
    \/ \E p \in Pids : mountFilesystemsOpen(p)
    \/ \E p \in Pids, mountStatus \in {0, -1} : mountFilesystemsLine(p, mountStatus)
    \/ \E p \in Pids : mountFilesystemsEnd(p)
    \/ \E p \in Pids : CheckShell(p)
    \/ \E p \in Pids, restart \in BOOLEAN, resethand \in BOOLEAN :
           InstallHandler(p, restart, resethand)
    \/ \E p \in Pids, terminate \in BOOLEAN : KillSelf(p, terminate)
    \/ \E p \in Pids, c \in Pids : Fork(p, c)
    \/ \E p \in Pids : ForkFail(p)
    \/ \E c \in Pids : Exec(c)
    \/ \E c \in Pids : ExecFail(c)
    \/ \E p \in Pids : WaitReap(p)
    \/ \E p \in Pids : WaitStopped(p)
    \/ \E p \in Pids : WaitNoChild(p)
    \/ \E terminate \in BOOLEAN : Hangup(terminate)
    \/ \E p \in Pids : CheckWait(p)
    \/ \E c \in Pids, code \in ExitCodes : ShellExit(c, code)
    \/ \E c \in Pids : ShellKilled(c)
    \/ \E c \in Pids : ShellStop(c)

Spec == Init /\ [][Next]_vars

\* Aurora is scheduled and the kernel answers its calls: a step of NeonMain
\* that stays possible is taken, fork() returns, one way or the other, and
\* waitpid returns once the child it names has terminated or does not exist
Fairness ==
    /\ WF_vars(CheckWait(Aurora))
    /\ WF_vars(WaitReap(Aurora))
    /\ WF_vars(WaitNoChild(Aurora))
    /\ WF_vars(ForkFail(Aurora) \/ \E c \in Pids : Fork(Aurora, c))

\* Aurora on a machine whose /etc/fstab is missing or empty: the read loop of
\* mountFilesystems has no line to work on, the rest is as in Next
InitLive == Init /\ fstab = <<>>

NextLive ==
    \/ \E p \in Pids : mountFilesystemsOpen(p)
    \/ \E p \in Pids : mountFilesystemsEnd(p)
    \/ \E p \in Pids : CheckShell(p)
    \/ \E p \in Pids, restart \in BOOLEAN, resethand \in BOOLEAN :
           InstallHandler(p, restart, resethand)
    \/ \E p \in Pids, terminate \in BOOLEAN : KillSelf(p, terminate)
    \/ \E p \in Pids, c \in Pids : Fork(p, c)
    \/ \E p \in Pids : ForkFail(p)
    \/ \E c \in Pids : Exec(c)
    \/ \E c \in Pids : ExecFail(c)
    \/ \E p \in Pids : WaitReap(p)
    \/ \E p \in Pids : WaitStopped(p)
    \/ \E p \in Pids : WaitNoChild(p)
    \/ \E terminate \in BOOLEAN : Hangup(terminate)
    \/ \E p \in Pids : CheckWait(p)
    \/ \E c \in Pids, code \in ExitCodes : ShellExit(c, code)
    \/ \E c \in Pids : ShellKilled(c)
    \/ \E c \in Pids : ShellStop(c)

SpecLive == InitLive /\ [][NextLive]_vars /\ Fairness

\* ------------------------------------------------------------------------
\* The parsers called on their own: parseMountOptions on an options string,
\* parseMountPoint on a line, each built from a sequence of tokens
\* ------------------------------------------------------------------------
OptionTokens ==
    { <<"r", "o">>, <<"n", "o", "e", "x", "e", "c">>, <<"n", "o", "d", "e", "v">>,
      <<"r", "w">>, <<"x">>, <<"r">> }

FieldTokens == { <<"a">>, <<"1", "2">>, <<"-", "3", "x">> }

TokenSeqs(pool, n) == UNION { [1..k -> pool] : k \in 0..n }

\* the tokens written one after the other: lead before the first, sep between
\* two, trail after the last
RECURSIVE Join(_, _)
Join(tokens, sep) ==
    IF tokens = <<>> THEN <<>>
    ELSE IF Len(tokens) = 1 THEN Head(tokens)
    ELSE Head(tokens) \o sep \o Join(Tail(tokens), sep)

Written(tokens, lead, sep, trail) == lead \o Join(tokens, sep) \o trail

OptionArgs ==
    { [fn |-> "parseMountOptions", tokens |-> ts, text |-> Written(ts, <<>>, <<",">>, <<>>)] :
        ts \in TokenSeqs(OptionTokens, MaxTokens) }
    \cup
    { [fn |-> "parseMountOptions", tokens |-> ts,
       text |-> Written(ts, <<",">>, <<",", ",">>, <<",">>)] :
        ts \in TokenSeqs(OptionTokens, MaxTokens) }

LineArgs ==
    { [fn |-> "parseMountPoint", tokens |-> ts, text |-> Written(ts, <<>>, <<" ">>, <<>>)] :
        ts \in TokenSeqs(FieldTokens, MaxWords) }
    \cup
    { [fn |-> "parseMountPoint", tokens |-> ts,
       text |-> Written(ts, <<"\t">>, <<" ", "\t">>, <<" ">>)] :
        ts \in TokenSeqs(FieldTokens, MaxWords) }

InitParsers ==
    /\ arg \in OptionArgs \cup LineArgs
    /\ result = NotCalled
    /\ fstabExists = FALSE
    /\ fstab = <<>>
    /\ shellExecutable = FALSE
    /\ fpos = 0
    /\ lineNumber = 0
    /\ mountReturn = Unset
    /\ mounts = <<>>
    /\ proc = [p \in Pids |-> Unborn]
    /\ log = [p \in Pids |-> EmptyBag]
    /\ sighup = [handler |-> FALSE, restart |-> FALSE, resethand |-> FALSE]
    /\ nSignals = 0
    /\ nStops = 0

\* flags = parseMountOptions(opts) on a buffer holding arg.text
CallParseMountOptions ==
    /\ arg.fn = "parseMountOptions"
    /\ result = NotCalled
    /\ LET r == parseMountOptions(arg.text)
       IN  result' = [fn |-> "parseMountOptions", flags |-> r.flags,
                      opts |-> r.opts, top |-> r.top]
    /\ UNCHANGED <<arg, fstabExists, fstab, shellExecutable, fpos, lineNumber,
                   mountReturn, mounts, proc, log, sighup, nSignals, nStops>>

\* parseMountPoint(line, entry) on a buffer holding arg.text
CallParseMountPoint ==
    /\ arg.fn = "parseMountPoint"
    /\ result = NotCalled
    /\ result' = [fn |-> "parseMountPoint", entry |-> parseMountPoint(arg.text)]
    /\ UNCHANGED <<arg, fstabExists, fstab, shellExecutable, fpos, lineNumber,
                   mountReturn, mounts, proc, log, sighup, nSignals, nStops>>

NextParsers == CallParseMountOptions \/ CallParseMountPoint

SpecParsers == InitParsers /\ [][NextParsers]_vars

\* ------------------------------------------------------------------------
\* mountFilesystems on its own, over tables that also hold blank lines,
\* comments with many fields and lines longer than the line buffer
\* ------------------------------------------------------------------------
\* a line of MAX_LINE_LENGTH + 6 bytes: first, three short fields and a long
\* one that ends at byte MAX_LINE_LENGTH, then three more short fields
LongLine(first) ==
    [i \in 1..(MAX_LINE_LENGTH + 6) |->
        IF i = 1 THEN first
        ELSE IF i \in {2, 4, 6, MAX_LINE_LENGTH + 1, MAX_LINE_LENGTH + 3, MAX_LINE_LENGTH + 5}
        THEN " "
        ELSE "x"]

MountLines ==
    { <<"a", " ", "t", " ", "f", " ", "r", "o">>,
      <<"b", "\t", "t", " ", "f", " ", "r", "w", " ", "1", " ", "2", " ", "z">>,
      <<"#", "c">>,
      <<"#", " ", "a", " ", "b", " ", "c", " ", "d">>,
      <<>>,
      <<" ">>,
      <<"d", " ", "t">>,
      LongLine("x"),
      LongLine("#") }

MountTables ==
    { Concat([k \in 1..Len(ls) |-> ls[k] \o <<NL>>]) : ls \in TokenSeqs(MountLines, MaxLines) }

InitMount ==
    /\ fstabExists \in BOOLEAN
    /\ fstab \in (IF fstabExists THEN MountTables ELSE {<<>>})
    /\ shellExecutable = TRUE
    /\ fpos = 0
    /\ lineNumber = 0
    /\ mountReturn = Unset
    /\ mounts = <<>>
    /\ proc = [p \in Pids |->
                 IF p = Aurora
                 THEN [Unborn EXCEPT !.image = "aurora", !.state = "running", !.pc = "open"]
                 ELSE Unborn]
    /\ log = [p \in Pids |-> EmptyBag]
    /\ sighup = [handler |-> FALSE, restart |-> FALSE, resethand |-> FALSE]
    /\ nSignals = 0
    /\ nStops = 0
    /\ arg = NoArg
    /\ result = NotCalled

NextMount ==
    \/ \E p \in Pids : mountFilesystemsOpen(p)
    \/ \E p \in Pids, mountStatus \in {0, -1} : mountFilesystemsLine(p, mountStatus)
    \/ \E p \in Pids : mountFilesystemsEnd(p)

SpecMount == InitMount /\ [][NextMount]_vars

\* ------------------------------------------------------------------------
\* Properties
\* ------------------------------------------------------------------------
Children(p) == { c \in Pids : proc[c].parent = p /\ proc[c].state # "unborn" }
LiveChildren(p) == { c \in Children(p) : proc[c].state \in {"running", "stopped"} }
InLoop(p) == proc[p].state = "running" /\ proc[p].pc \in {"fork", "inwait", "waitret"}
Count(p, msg) ==
    LET hits == { e \in BagToSet(log[p]) : e.msg = msg }
    IN  IF hits = {} THEN 0 ELSE BagCardinality([e \in hits |-> log[p][e]])

\* C1: Aurora never has two live children, and it is about to fork only when
\* every child it forked before has terminated and been reaped.
C1_OneLiveChild ==
    /\ Cardinality(LiveChildren(Aurora)) <= 1
    /\ (proc[Aurora].state = "running" /\ proc[Aurora].pc = "fork")
          => \A c \in Children(Aurora) : proc[c].state = "reaped"

\* C2: as long as every return of waitpid in Aurora was a normal exit, N such
\* returns go with exactly N + 1 fork calls and N + 1 waitpid calls once the
\* respawn is made, each wait being on the child forked last, and every
\* respawn follows exactly one logged exit.
C2_RespawnPerExit ==
    LET a == proc[Aurora]
        N == a.nExited
        died == Count(Aurora, "Child died with exit code")
    IN  (a.nReturn = N) =>
          /\ (a.state = "running" /\ a.pc = "fork")
                => a.nFork = N /\ a.nWait = N /\ died = N
          /\ (a.state = "running" /\ a.pc = "inwait")
                => /\ a.nFork = N + 1 /\ a.nWait = N + 1 /\ died = N
                   /\ a.pid \in Children(Aurora)
                   /\ \A c \in Children(Aurora) : c <= a.pid
          /\ (a.state = "running" /\ a.pc = "waitret")
                => a.nFork = N /\ a.nWait = N /\ died = N - 1 /\ a.ret = a.pid
          /\ (a.pc = "done" /\ a.pid = -1)
                => a.nFork = N + 1 /\ a.nWait = N

C2_Witness ==
    /\ proc[Aurora].nExited = 1
    /\ proc[Aurora].nReturn = 1
    /\ proc[Aurora].nFork = 2
    /\ proc[Aurora].pc = "inwait"

\* C3: a duplicate whose execvp failed makes no fork call, no waitpid call and
\* no log call.
C3_ExecFailureEnds ==
    \A c \in Pids : proc[c].execFailed =>
        proc[c].nFork = 0 /\ proc[c].nWait = 0 /\ log[c] = EmptyBag

\* C4: when waitpid returns the child's identifier with a stopped status, the
\* next step of that process is a waitpid call on the same identifier: no
\* fork, no exit log, pid unchanged.
C4_StoppedRewaits ==
    [][\A p \in Pids :
         (/\ proc[p].state = "running" /\ proc[p].pc = "waitret"
          /\ proc[p].ret = proc[p].pid /\ proc[p].status.kind = "stopped"
          /\ proc'[p].state = "running")
         => /\ proc'[p].pc \in {"waitret", "inwait"}
            /\ proc'[p].pid = proc[p].pid
            /\ proc'[p].nFork = proc[p].nFork
            /\ Count(p, "Child died with exit code")' = Count(p, "Child died with exit code")
            /\ (proc'[p].pc = "inwait" => proc'[p].nWait = proc[p].nWait + 1)
            /\ (proc'[p].pc = "waitret" => proc'[p].nWait = proc[p].nWait)]_vars

C4_Witness ==
    /\ proc[Aurora].state = "running" /\ proc[Aurora].pc = "inwait"
    /\ proc[Aurora].status.kind = "stopped"
    /\ proc[Aurora].ret = proc[Aurora].pid
    /\ proc[Aurora].nWait = proc[Aurora].nFork + 1
    /\ proc[proc[Aurora].pid].state = "stopped"

\* C5: a hangup signal that Aurora's handler receives changes nothing but the
\* log: the process table (position in the loop, waitpid in progress,
\* children) is as before.
C5_HangupOnlyLogs ==
    [][(nSignals' # nSignals /\ sighup.handler) => proc' = proc]_vars

\* C6: when /etc/fstab cannot be opened no mount is made, Aurora never
\* enters the supervision loop and forks nothing, and when it ends it ends
\* with a failure status.
C6_NoFstabAborts ==
    ~fstabExists =>
        /\ mounts = <<>>
        /\ proc[Aurora].nFork = 0
        /\ proc[Aurora].pc \notin {"fork", "inwait", "waitret"}
        /\ proc[Aurora].pc = "done" =>
              proc[Aurora].term = [kind |-> "exited", code |-> EXIT_FAILURE]

\* C7: when the shell is not executable Aurora ends with a failure status
\* before the loop: no process ever calls fork, the hangup handler is never
\* installed and no hangup is ever received.
C7_NoShellNoLoop ==
    ~shellExecutable =>
        /\ \A p \in Pids : proc[p].nFork = 0 /\ proc[p].nWait = 0
        /\ Children(Aurora) = {}
        /\ ~sighup.handler
        /\ Count(Aurora, "Received signal") = 0
        /\ Count(Aurora, "Launching shell...") = 0
        /\ proc[Aurora].pc \in {"open", "read", "access", "done"}
        /\ proc[Aurora].pc = "done" =>
              /\ proc[Aurora].term = [kind |-> "exited", code |-> EXIT_FAILURE]
              /\ Count(Aurora, "Failed to access the shell") = 1

C7_Witness ==
    /\ ~shellExecutable
    /\ proc[Aurora].pc = "done"
    /\ mounts # <<>>

\* C8: a process whose fork failed has logged the error once and ended with
\* a failure status, and from then on, until it is reaped, it makes no fork
\* call, no waitpid call and no log call.
C8_ForkFailureFatal ==
    /\ [](\A p \in Pids : proc[p].pid = -1 =>
            /\ proc[p].state \in {"zombie", "reaped"}
            /\ proc[p].pc = "done"
            /\ proc[p].term = [kind |-> "exited", code |-> EXIT_FAILURE]
            /\ Count(p, "fork failed") = 1)
    /\ [][\A p \in Pids : (proc[p].pid = -1 /\ proc'[p].state # "reaped") =>
            /\ proc'[p].nFork = proc[p].nFork
            /\ proc'[p].nWait = proc[p].nWait
            /\ log'[p] = log[p]]_vars

C8_Witness ==
    /\ proc[Aurora].pid = -1
    /\ proc[Aurora].nFork = 2
    /\ proc[Aurora].nExited = 1
    /\ proc[Aurora].pc = "done"

\* C9: a process that has entered the loop and ended by its own return did
\* so through a failed fork, and no step taken from a waitpid call or from
\* its return ends the process unless a signal kills it.
C9_OnlyForkFailureLeaves ==
    /\ [](\A p \in Pids :
            (/\ proc[p].image = "aurora" /\ proc[p].pc = "done"
             /\ proc[p].term.kind = "exited"
             /\ (proc[p].nFork > 0 \/ proc[p].nWait > 0))
            => /\ proc[p].pid = -1
               /\ proc[p].term.code = EXIT_FAILURE)
    /\ [][\A p \in Pids :
            (proc[p].pc \in {"inwait", "waitret"} /\ proc'[p].pc = "done")
            => proc'[p].term.kind = "signaled"]_vars

C9_Witness ==
    /\ InLoop(Aurora) /\ proc[Aurora].pc = "fork"
    /\ proc[Aurora].nReturn = 3
    /\ proc[Aurora].nExited = 1
    /\ \E e \in BagToSet(log[Aurora]) :
          e.msg = "Child died with exit code" /\ e.code = 1

\* the lines of a text, split at each newline
RECURSIVE SplitLines(_)
SplitLines(text) ==
    IF text = <<>> THEN <<>>
    ELSE LET n == Span(text, {NL}, FALSE)
         IN  <<SubSeq(text, 1, n)>> \o SplitLines(SubSeq(text, n + 2, Len(text)))

\* number of blank-separated fields of a line
FieldCount(line) ==
    Cardinality({ i \in 1..Len(line) :
                    /\ line[i] \notin {" ", "\t"}
                    /\ (i = 1 \/ line[i - 1] \in {" ", "\t"}) })

IsEntry(line) == line # <<>> /\ line[1] # "#" /\ FieldCount(line) >= 4

\* the numbers of the lines of /etc/fstab that hold an entry, in file order
EntryLines ==
    LET lines == SplitLines(fstab)
    IN  SelectSeq([i \in 1..Len(lines) |-> i], LAMBDA i : IsEntry(lines[i]))

RECURSIVE LinesRead(_, _)
LinesRead(content, pos) ==
    LET raw == fgets(content, pos, MAX_LINE_LENGTH)
    IN  IF raw = <<>> THEN <<>>
        ELSE <<trimNewLine(raw)>> \o LinesRead(content, pos + Len(raw))

Skipped(line) == line = <<>> \/ line[1] = "#"
MountedAt(i) == \E k \in 1..Len(mounts) : mounts[k].line = i
InvalidLoggedAt(i) ==
    \E e \in BagToSet(log[Aurora]) :
        e.msg = "Skipping invalid or incomplete line" /\ e.line = i

IsOptionsCall == result.fn = "parseMountOptions"
IsLineCall == result.fn = "parseMountPoint"

\* the flag bits named by the tokens of an options string, as a set
RecognisedBits(tokens) == { FlagOf(tokens[i]) : i \in 1..Len(tokens) } \ {0}

RECURSIVE SumOf(_)
SumOf(S) == IF S = {} THEN 0 ELSE LET x == CHOOSE x \in S : TRUE IN x + SumOf(S \ {x})

\* C12: the bitmask parseMountOptions returns has exactly the bits of the
\* recognised tokens of the string: it depends on the set of recognised tokens
\* only, not on their order, their repetition or the other tokens.
C12_FlagsAreUnion ==
    IsOptionsCall => result.flags = SumOf(RecognisedBits(arg.tokens))

C12_Witness ==
    /\ IsOptionsCall
    /\ arg.tokens = << <<"r", "o">>, <<"n", "o", "e", "x", "e", "c">>, <<"r", "o">> >>
    /\ result.flags = MS_RDONLY + MS_NOEXEC

Unrecognised(tokens) == SelectSeq(tokens, LAMBDA t : FlagOf(t) = 0)

\* C13: the string parseMountOptions leaves in the caller's buffer holds the
\* unrecognised tokens of the original string, each verbatim and in their
\* original order (run together or comma-separated), and nothing else, so no
\* recognised token is left in it wherever it stood.
C13_ResidualIsUnrecognised ==
    IsOptionsCall =>
        \/ result.opts = Join(Unrecognised(arg.tokens), <<>>)
        \/ result.opts = Join(Unrecognised(arg.tokens), <<",">>)

\* C14: a table all of whose lines begin with '#' or are empty once the
\* newline is trimmed yields nothing: no mount call is made and no
\* invalid-line error is logged, however far the read loop has got.
C14_SkippedLinesYieldNothing ==
    LET lines == SplitLines(fstab)
    IN  (\A i \in 1..Len(lines) : Skipped(lines[i]))
            => /\ mounts = <<>>
               /\ Count(Aurora, "Skipping invalid or incomplete line") = 0

\* the number a field of FieldTokens stands for
FieldNumber(t) ==
    CASE t = <<"1", "2">> -> 12
      [] t = <<"-", "3", "x">> -> -3
      [] OTHER -> 0

\* C15: for a line of at least 4 tokens parseMountPoint succeeds and the
\* entry holds tokens 1 to 4 as source, target, filesystem type and options,
\* the number of token 5 as dump frequency (0 without a token 5) and the
\* number of token 6 as fsck pass (0 without a token 6); tokens after the
\* sixth change nothing.
C15_FieldsByPosition ==
    (IsLineCall /\ Len(arg.tokens) >= 4) =>
        LET t == arg.tokens
            e == result.entry
        IN  /\ e.ok = 1
            /\ e.Source = t[1]
            /\ e.Target = t[2]
            /\ e.FilesystemType = t[3]
            /\ e.Options = t[4]
            /\ e.Frequency = (IF Len(t) >= 5 THEN FieldNumber(t[5]) ELSE 0)
            /\ e.FsckPassNumber = (IF Len(t) >= 6 THEN FieldNumber(t[6]) ELSE 0)

C15_Witness ==
    /\ IsLineCall
    /\ Len(arg.tokens) = 7
    /\ arg.tokens[7] = <<"1", "2">>
    /\ result.entry.Options = <<"a">>
    /\ result.entry.Frequency = 12
    /\ result.entry.FsckPassNumber = -3

\* C16: for an options string whose tokens are all unrecognised the string
\* left in the buffer is the tokens run together in their order, with no
\* comma between them.
C16_RetainedTokensRunTogether ==
    (IsOptionsCall /\ \A i \in 1..Len(arg.tokens) : FlagOf(arg.tokens[i]) = 0)
        => result.opts = Join(arg.tokens, <<>>)

C16_Witness ==
    /\ IsOptionsCall
    /\ arg.text = <<"r", "w", ",", "x">>
    /\ result.opts = <<"r", "w", "x">>

\* C17: every byte parseMountOptions writes into the caller's buffer, the
\* terminators included, lands at an offset no greater than the length of the
\* original string, and the string it leaves is no longer than the original.
C17_RewriteOnlyShrinks ==
    IsOptionsCall =>
        /\ result.top <= Len(arg.text)
        /\ Len(result.opts) <= Len(arg.text)

C17_Witness ==
    /\ IsOptionsCall
    /\ arg.text = <<"x", ",", "r", "w">>
    /\ result.top = 3
    /\ Len(result.opts) = 3

\* C18: a line longer than the line buffer is cut or dropped as a whole: every
\* read of the loop starts at the beginning of the file or right after a
\* newline, so the bytes beyond the limit are never read as a line of their
\* own, and there are never more mount calls or lines counted than the table
\* has lines.
C18_LongLineOnce ==
    /\ fpos = 0 \/ fstab[fpos] = NL
    /\ lineNumber <= Len(SplitLines(fstab))
    /\ Len(mounts) <= Len(SplitLines(fstab))

\* the step in which Aurora's kill(getpid(), SIGHUP) takes effect: Aurora
\* leaves the kill call and no hangup from outside arrives in the same step
SelfSignalStep ==
    /\ proc[Aurora].state = "running"
    /\ proc[Aurora].pc = "kill"
    /\ proc'[Aurora] # proc[Aurora]
    /\ nSignals' = nSignals

\* C19: in every step, (a) mount calls happen and mountFilesystems returns
\* only before Aurora has forked, and once it has returned no further mount
\* call is made; (b) Aurora reaches the kill call only from sigaction and
\* enters the loop only from the kill call, so the self-signal is sent once
\* and before the first fork; (c) when the self-signal takes effect the
\* handler is installed, it logs the receipt, and Aurora is running at the
\* top of the loop afterwards.
C19_StartupOrder ==
    [][ /\ (mounts' # mounts \/ mountReturn' # mountReturn)
             => /\ mountReturn = Unset
                /\ proc[Aurora].pc \in {"open", "read"}
                /\ proc[Aurora].nFork = 0
        /\ (proc'[Aurora].pc = "kill" /\ proc[Aurora].pc # "kill")
             => proc[Aurora].pc = "sigaction" /\ sighup'.handler
        /\ (proc'[Aurora].pc = "fork" /\ proc[Aurora].pc \in {"open", "read", "access", "sigaction", "kill"})
             => proc[Aurora].pc = "kill" /\ proc[Aurora].nFork = 0 /\ mountReturn # Unset
        /\ SelfSignalStep
             => /\ sighup.handler
                /\ Count(Aurora, "Received signal")' = Count(Aurora, "Received signal") + 1
                /\ proc'[Aurora].state = "running"
                /\ proc'[Aurora].pc = "fork"
      ]_vars

\* waitpid has just returned to Aurora the identifier it waited for, with the
\* status of a shell that terminated, after n fork calls
TerminationSeen(n) ==
    /\ proc[Aurora].state = "running"
    /\ proc[Aurora].pc = "waitret"
    /\ proc[Aurora].ret = proc[Aurora].pid
    /\ proc[Aurora].status.kind \in {"exited", "signaled"}
    /\ proc[Aurora].nFork = n

\* C20: (a) when Aurora waits again after waitpid returned the shell's
\* identifier with a killed-by-signal status, that identifier names no child
\* of Aurora any more, so the call fails instead of blocking; (b) an exit code
\* is logged only for a status that is a normal exit; (c) whenever waitpid
\* has reported the termination of the shell, by exit or by signal, Aurora
\* calls fork again, unless Aurora itself is ended first.
C20_SignaledShellReplaced ==
    /\ []((/\ proc[Aurora].state = "running"
           /\ proc[Aurora].pc = "inwait"
           /\ proc[Aurora].status.kind = "signaled")
             => ~IsChild(Aurora, proc[Aurora].pid))
    /\ [][Count(Aurora, "Child died with exit code")' # Count(Aurora, "Child died with exit code")
             => proc[Aurora].status.kind = "exited"]_vars
    /\ \A n \in 0..MaxProcs :
          TerminationSeen(n) ~> (proc[Aurora].nFork > n \/ proc[Aurora].state # "running")

C20_Witness ==
    /\ proc[Aurora].state = "running"
    /\ proc[Aurora].pc = "inwait"
    /\ proc[Aurora].nFork = 2
    /\ proc[Aurora].nReturn = 2
    /\ proc[Aurora].nExited = 0
    /\ nSignals = 0
    /\ Count(Aurora, "Child died with exit code") = 0
    /\ \E c \in Pids : proc[c].state = "reaped"

====
